---- MODULE Spec2Model ----
(***************************************************************************)
(* Model of the SSE grade-notification server (grade-notifications.ts):    *)
(* the connection registry, the missed-notification store, the broadcast / *)
(* replay protocol and the periodic cleanup task.                          *)
(*                                                                         *)
(* Node runs every request handler and every event callback to completion  *)
(* (none of the handlers awaits), so each handler is one atomic action.    *)
(* Date.now() is the variable now; it is read once per handler (the few    *)
(* milliseconds between two reads inside one handler are far below the     *)
(* retention window) and only moves forward.  Time is counted in coarse    *)
(* units, the retention window being NOTIFICATION_TTL_MS of them.          *)
(*                                                                         *)
(* A FastifyReply is identified by its index in replies.  A reply is       *)
(* writable while reply.raw.write succeeds; ChannelFault makes every       *)
(* later write to it throw.  A reply is healthy while its own handler      *)
(* runs.  frames is what the handlers have written to the reply without    *)
(* throwing, the keep-alive comments excepted.                             *)
(***************************************************************************)
EXTENDS Integers, Sequences, FiniteSets, TLC

\* ---------------------------------------------------------------- bounds
MaxWork == 4            \* SSE requests accepted + notifications created + clock ticks in one run
MaxBatch == 2           \* longest notifications array of a batch request
MaxLimit == 2           \* largest configured MAX_CONNECTIONS_PER_STUDENT

\* ------------------------------------------------------------ parameters
NOTIFICATION_TTL_MS == 1

StudentIds == {"s1", "s2"}
Messages == {"x"}
NoValue == ""           \* a missing or empty request field (falsy in JS)

VARIABLES
    MAX_CONNECTIONS_PER_STUDENT, \* configured limit, fixed at start-up
    now,                  \* Date.now()
    connections,          \* Map<StudentId, Set<FastifyReply>>, sets in insertion order
    recentNotifications,  \* Map<StudentId, Notification[]>
    metrics,              \* the metrics object
    replies,              \* every FastifyReply created so far
    published,            \* every Notification created so far, in order
    response              \* what the last step returned: the HTTP response of a request
                          \* handler with the results of its broadcastToStudent calls,
                          \* or the reply a 'close' event was for and whether its
                          \* onClose call found it still registered

vars == <<MAX_CONNECTIONS_PER_STUDENT, now, connections, recentNotifications,
          metrics, replies, published, response>>

\* ------------------------------------------------------------- sequences
RECURSIVE SumSeq(_)
SumSeq(s) == IF s = <<>> THEN 0 ELSE Head(s) + SumSeq(Tail(s))

Range(s) == {s[i] : i \in DOMAIN s}

Max0(a) == IF a < 0 THEN 0 ELSE a

\* ------------------------------------------------------------ Map helpers
MapGet(m, k, default) == IF k \in DOMAIN m THEN m[k] ELSE default

MapSet(m, k, v) == [x \in (DOMAIN m) \cup {k} |-> IF x = k THEN v ELSE m[x]]

MapDelete(m, k) == [x \in (DOMAIN m) \ {k} |-> m[x]]

EmptyMap == [x \in {} |-> <<>>]

RECURSIVE SumFn(_)
SumFn(f) ==
    IF DOMAIN f = {} THEN 0
    ELSE LET k == CHOOSE x \in DOMAIN f : TRUE
         IN f[k] + SumFn([x \in (DOMAIN f) \ {k} |-> f[x]])

\* ------------------------------------------------------ notification store
\* the filter predicate of pruneOldNotifications
\* (variants: boundary excluded; nothing ever filtered out)
RetainedStrict(n, t) == t - n.createdAt < NOTIFICATION_TTL_MS

RetainedForever(n, t) == TRUE

Retained(n, t) == t - n.createdAt <= NOTIFICATION_TTL_MS

Filtered(list, t) == SelectSeq(list, LAMBDA n : Retained(n, t))

\* pruneOldNotifications(now): every key is filtered; a key whose list
\* becomes empty is deleted; notificationsEvicted grows by the entries dropped.
\* (variants: the entries dropped are not counted; an emptied key is kept)
pruneUncounted(rn, m, t) ==
    LET keep == {s \in DOMAIN rn : Filtered(rn[s], t) # <<>>}
    IN [recentNotifications |-> [s \in keep |-> Filtered(rn[s], t)],
        metrics |-> m]

pruneKeepsEmptyKeys(rn, m, t) ==
    LET evicted == SumFn([s \in DOMAIN rn |-> Len(rn[s]) - Len(Filtered(rn[s], t))])
    IN [recentNotifications |-> [s \in DOMAIN rn |-> Filtered(rn[s], t)],
        metrics |-> [m EXCEPT !.notificationsEvicted = @ + evicted]]

pruneOldNotifications(rn, m, t) ==
    LET keep == {s \in DOMAIN rn : Filtered(rn[s], t) # <<>>}
        evicted == SumFn([s \in DOMAIN rn |-> Len(rn[s]) - Len(Filtered(rn[s], t))])
    IN [recentNotifications |-> [s \in keep |-> Filtered(rn[s], t)],
        metrics |-> [m EXCEPT !.notificationsEvicted = @ + evicted]]

\* (variants of addRecentNotification: the counter is not incremented; the
\* entry is put at the front of the list)
addRecentNotificationUncounted(rn, m, n, t) ==
    LET list == MapGet(rn, n.studentId, <<>>)
        rn1 == MapSet(rn, n.studentId, Append(list, n))
    IN pruneOldNotifications(rn1, m, t)

addRecentNotificationFront(rn, m, n, t) ==
    LET list == MapGet(rn, n.studentId, <<>>)
        rn1 == MapSet(rn, n.studentId, <<n>> \o list)
        m1 == [m EXCEPT !.notificationsStored = @ + 1]
    IN pruneOldNotifications(rn1, m1, t)

\* addRecentNotification(n): push, count, then prune at the current time
addRecentNotification(rn, m, n, t) ==
    LET list == MapGet(rn, n.studentId, <<>>)
        rn1 == MapSet(rn, n.studentId, Append(list, n))
        m1 == [m EXCEPT !.notificationsStored = @ + 1]
    IN pruneOldNotifications(rn1, m1, t)

\* ------------------------------------------------------ connection registry
\* (variant of the write: the frame is written a second time)
TryWriteTwice(reps, c, frame) ==
    IF reps[c].writable
    THEN [reps EXCEPT ![c].frames = Append(Append(@, frame), frame)]
    ELSE reps

\* reply.raw.write(data) inside try/catch: the frame is written unless the
\* write throws
TryWrite(reps, c, frame) ==
    IF reps[c].writable
    THEN [reps EXCEPT ![c].frames = Append(@, frame)]
    ELSE reps

\* the for-loop of broadcastToStudent over the set, in insertion order
\* (variants: the try/catch around the loop; a return inside the loop; sent++
\* outside the try)
RECURSIVE BroadcastLoopAbort(_, _, _, _)
BroadcastLoopAbort(set, reps, frame, sent) ==
    IF set = <<>> \/ ~reps[Head(set)].writable THEN [replies |-> reps, sent |-> sent]
    ELSE BroadcastLoopAbort(Tail(set), TryWrite(reps, Head(set), frame), frame, sent + 1)

BroadcastLoopFirstOnly(set, reps, frame, sent) ==
    IF set = <<>> THEN [replies |-> reps, sent |-> sent]
    ELSE [replies |-> TryWrite(reps, Head(set), frame),
          sent |-> IF reps[Head(set)].writable THEN sent + 1 ELSE sent]

RECURSIVE BroadcastLoopCountsAttempts(_, _, _, _)
BroadcastLoopCountsAttempts(set, reps, frame, sent) ==
    IF set = <<>> THEN [replies |-> reps, sent |-> sent]
    ELSE BroadcastLoopCountsAttempts(Tail(set), TryWrite(reps, Head(set), frame), frame,
                                     sent + 1)

RECURSIVE BroadcastLoop(_, _, _, _)
BroadcastLoop(set, reps, frame, sent) ==
    IF set = <<>> THEN [replies |-> reps, sent |-> sent]
    ELSE LET c == Head(set)
         IN BroadcastLoop(Tail(set), TryWrite(reps, c, frame), frame,
                          IF reps[c].writable THEN sent + 1 ELSE sent)

\* (variant of broadcastToStudent: the studentId is ignored)
\* every reply of every student, in the order of the Map's keys
RECURSIVE AllConnections(_)
AllConnections(conns) ==
    IF DOMAIN conns = {} THEN <<>>
    ELSE LET k == CHOOSE x \in DOMAIN conns : TRUE
         IN conns[k] \o AllConnections(MapDelete(conns, k))

broadcastToAll(conns, reps, m, studentId, frame) ==
    LET r == BroadcastLoop(AllConnections(conns), reps, frame, 0)
    IN [replies |-> r.replies,
        metrics |-> [m EXCEPT !.notificationsSent = @ + r.sent],
        sent |-> r.sent]

\* (variant of broadcastToStudent: every reply ever opened for the student)
broadcastToEveryReply(conns, reps, m, studentId, frame) ==
    LET r == BroadcastLoop(SelectSeq([c \in DOMAIN reps |-> c],
                                     LAMBDA c : reps[c].studentId = studentId),
                           reps, frame, 0)
    IN [replies |-> r.replies,
        metrics |-> [m EXCEPT !.notificationsSent = @ + r.sent],
        sent |-> r.sent]

\* (variant of broadcastToStudent: a write that throws is counted as a
\* connection that went away)
broadcastCountsFailuresAsClosed(conns, reps, m, studentId, frame) ==
    LET set == MapGet(conns, studentId, <<>>)
        r == BroadcastLoop(set, reps, frame, 0)
    IN [replies |-> r.replies,
        metrics |-> [m EXCEPT !.notificationsSent = @ + r.sent,
                              !.connectionsActive = Max0(@ - (Len(set) - r.sent))],
        sent |-> r.sent]

\* broadcastToStudent(studentId, payload): returns the number of writes that
\* did not throw and adds it to notificationsSent
broadcastToStudent(conns, reps, m, studentId, frame) ==
    LET set == MapGet(conns, studentId, <<>>)
    IN IF set = <<>>
       THEN [replies |-> reps, metrics |-> m, sent |-> 0]
       ELSE LET r == BroadcastLoop(set, reps, frame, 0)
            IN [replies |-> r.replies,
                metrics |-> [m EXCEPT !.notificationsSent = @ + r.sent],
                sent |-> r.sent]

\* reply.raw.end(): the stream is finished, nothing more is written to it
EndStream(reps, c) == [reps EXCEPT ![c].ended = TRUE, ![c].writable = FALSE]

\* the test set.size >= MAX_CONNECTIONS_PER_STUDENT of registerConnection
\* (variant: >)
FullOffByOne(set) == Len(set) > MAX_CONNECTIONS_PER_STUDENT

Full(set) == Len(set) >= MAX_CONNECTIONS_PER_STUDENT

\* the member registerConnection drops when the set is full: the first in
\* insertion order (set.values().next().value)
\* (variant: the last in insertion order)
OldestIsNewest(set) == set[Len(set)]

Oldest(set) == Head(set)

\* (variant of registerConnection: the eviction does not decrement
\* connectionsActive)
registerEvictionUncounted(conns, reps, m, studentId, reply) ==
    LET set == MapGet(conns, studentId, <<>>)
        full == Full(set) /\ set # <<>>
        oldest == Oldest(set)
        set1 == IF full THEN SelectSeq(set, LAMBDA c : c # oldest) ELSE set
        reps1 == IF full THEN EndStream(reps, oldest) ELSE reps
    IN [connections |-> MapSet(conns, studentId, Append(set1, reply)),
        replies |-> reps1,
        metrics |-> [m EXCEPT !.connectionsTotal = @ + 1,
                              !.connectionsActive = @ + 1]]

\* registerConnection(studentId, reply)
registerConnection(conns, reps, m, studentId, reply) ==
    LET set == MapGet(conns, studentId, <<>>)
        full == Full(set) /\ set # <<>>
        oldest == Oldest(set)
        set1 == IF full THEN SelectSeq(set, LAMBDA c : c # oldest) ELSE set
        reps1 == IF full THEN EndStream(reps, oldest) ELSE reps
        m1 == IF full
              THEN [m EXCEPT !.connectionsActive = Max0(@ - 1)]
              ELSE m
    IN [connections |-> MapSet(conns, studentId, Append(set1, reply)),
        replies |-> reps1,
        metrics |-> [m1 EXCEPT !.connectionsTotal = @ + 1,
                               !.connectionsActive = @ + 1]]

\* unregisterConnection(studentId, reply)
\* (variant: the result of set.delete is not tested)
unregisterAlwaysDecrements(conns, m, studentId, reply) ==
    IF studentId \notin DOMAIN conns
    THEN [connections |-> conns, metrics |-> m]
    ELSE LET set1 == SelectSeq(conns[studentId], LAMBDA c : c # reply)
         IN [connections |-> IF set1 = <<>>
                             THEN MapDelete(conns, studentId)
                             ELSE MapSet(conns, studentId, set1),
             metrics |-> [m EXCEPT !.connectionsActive = Max0(@ - 1)]]

\* (variant: the key of a set that became empty is kept)
unregisterKeepsEmptySet(conns, m, studentId, reply) ==
    IF studentId \notin DOMAIN conns
    THEN [connections |-> conns, metrics |-> m]
    ELSE LET set == conns[studentId]
             deleted == reply \in Range(set)
         IN [connections |-> MapSet(conns, studentId,
                                    SelectSeq(set, LAMBDA c : c # reply)),
             metrics |-> IF deleted
                         THEN [m EXCEPT !.connectionsActive = Max0(@ - 1)]
                         ELSE m]

\* (variant: only the first member of the set can be deleted)
unregisterOldestOnly(conns, m, studentId, reply) ==
    IF studentId \notin DOMAIN conns \/ Head(conns[studentId]) # reply
    THEN [connections |-> conns, metrics |-> m]
    ELSE LET set1 == Tail(conns[studentId])
         IN [connections |-> IF set1 = <<>>
                             THEN MapDelete(conns, studentId)
                             ELSE MapSet(conns, studentId, set1),
             metrics |-> [m EXCEPT !.connectionsActive = Max0(@ - 1)]]

unregisterConnection(conns, m, studentId, reply) ==
    IF studentId \notin DOMAIN conns
    THEN [connections |-> conns, metrics |-> m]
    ELSE LET set == conns[studentId]
             deleted == reply \in Range(set)
             set1 == SelectSeq(set, LAMBDA c : c # reply)
         IN [connections |-> IF set1 = <<>>
                             THEN MapDelete(conns, studentId)
                             ELSE MapSet(conns, studentId, set1),
             metrics |-> IF deleted
                         THEN [m EXCEPT !.connectionsActive = Max0(@ - 1)]
                         ELSE m]

\* ------------------------------------------------------------------ frames
\* the SSE data frame {type, id, message, createdAt} of a notification
\* (variant: the two type literals exchanged)
FrameSwapped(type, n) ==
    [type |-> IF type = "live" THEN "missed" ELSE "live", id |-> n.id,
     message |-> n.message, createdAt |-> n.createdAt]

Frame(type, n) ==
    [type |-> type, id |-> n.id, message |-> n.message, createdAt |-> n.createdAt]

\* the comment line ": connected <now>" that opens the stream
ConnectedMark(t) == [type |-> "connected", id |-> 0, message |-> "", createdAt |-> t]

\* the replay loop of the /sse handler: one missed frame per stored entry
\* (variants: newest first; the last entry left out)
RECURSIVE ReplayNewestFirst(_, _, _)
ReplayNewestFirst(reps, c, missed) ==
    IF missed = <<>> THEN reps
    ELSE ReplayNewestFirst(TryWrite(reps, c, Frame("missed", missed[Len(missed)])), c,
                           SubSeq(missed, 1, Len(missed) - 1))

RECURSIVE ReplayOffByOne(_, _, _)
ReplayOffByOne(reps, c, missed) ==
    IF Len(missed) <= 1 THEN reps
    ELSE ReplayOffByOne(TryWrite(reps, c, Frame("missed", Head(missed))), c, Tail(missed))

RECURSIVE Replay(_, _, _)
Replay(reps, c, missed) ==
    IF missed = <<>> THEN reps
    ELSE Replay(TryWrite(reps, c, Frame("missed", Head(missed))), c, Tail(missed))

Response(kind, code, ids, sent) ==
    [kind |-> kind, code |-> code, ids |-> ids, sent |-> sent, reply |-> 0,
     removed |-> FALSE, error |-> ""]

\* reply.code(400).send({ error })
Rejected(error) == [Response("http", 400, <<>>, <<>>) EXCEPT !.error = error]

NoResponse == Response("none", 0, <<>>, <<>>)

OnCloseResult(c, removed) ==
    [kind |-> "onClose", code |-> 0, ids |-> <<>>, sent |-> <<>>, reply |-> c,
     removed |-> removed, error |-> ""]

Registered(c) == c \in Range(MapGet(connections, replies[c].studentId, <<>>))

\* what a run has consumed of its bound
Work == Len(replies) + Len(published) + now

\* ------------------------------------------------------------------- state
\* the process starts with empty maps and zeroed metrics, at clock value t
Start(t) ==
    /\ MAX_CONNECTIONS_PER_STUDENT \in 1..MaxLimit
    /\ now = t
    /\ connections = EmptyMap
    /\ recentNotifications = EmptyMap
    /\ metrics = [connectionsTotal |-> 0, connectionsActive |-> 0,
                  notificationsSent |-> 0, notificationsStored |-> 0,
                  notificationsEvicted |-> 0]
    /\ replies = <<>>
    /\ published = <<>>
    /\ response = NoResponse

Init == Start(0)

\* ---------------------------------------------------------------- GET /sse
\* the query strings of a request: a studentId, or none (or an empty one)
SubscribeQueries == StudentIds \cup {NoValue}

\* the test of the handler on the query's studentId
\* (variant: no test)
SubscribeValidAlways(studentId) == TRUE

SubscribeValid(studentId) == studentId # NoValue

\* a request without studentId: 400, nothing else happens
SubscribeRejected(studentId) ==
    /\ ~SubscribeValid(studentId)
    /\ response' = Rejected("studentId is required")
    /\ UNCHANGED <<MAX_CONNECTIONS_PER_STUDENT, now, connections,
                   recentNotifications, metrics, replies, published>>

\* (variant of the handler: the replay reads the store without pruning it)
SubscribeWithoutPrune(studentId) ==
    /\ SubscribeValid(studentId)
    /\ Work < MaxWork
    /\ LET c == Len(replies) + 1
           fresh == [studentId |-> studentId, writable |-> TRUE, ended |-> FALSE,
                     closed |-> FALSE, frames |-> <<>>]
           reg == registerConnection(connections, Append(replies, fresh), metrics,
                                     studentId, c)
           reps1 == [reg.replies EXCEPT ![c].frames = Append(@, ConnectedMark(now))]
           missed == MapGet(recentNotifications, studentId, <<>>)
       IN /\ connections' = reg.connections
          /\ recentNotifications' = recentNotifications
          /\ metrics' = reg.metrics
          /\ replies' = Replay(reps1, c, missed)
          /\ response' = Response("http", 200, <<>>, <<>>)
    /\ UNCHANGED <<MAX_CONNECTIONS_PER_STUDENT, now, published>>

\* the handler for studentId: register, connected mark, prune, replay,
\* attach the close and end listeners
Subscribe(studentId) ==
    /\ SubscribeValid(studentId)
    /\ Work < MaxWork
    /\ LET c == Len(replies) + 1
           fresh == [studentId |-> studentId, writable |-> TRUE, ended |-> FALSE,
                     closed |-> FALSE, frames |-> <<>>]
           reg == registerConnection(connections, Append(replies, fresh), metrics,
                                     studentId, c)
           reps1 == [reg.replies EXCEPT ![c].frames = Append(@, ConnectedMark(now))]
           pr == pruneOldNotifications(recentNotifications, reg.metrics, now)
           missed == MapGet(pr.recentNotifications, studentId, <<>>)
       IN /\ connections' = reg.connections
          /\ recentNotifications' = pr.recentNotifications
          /\ metrics' = pr.metrics
          /\ replies' = Replay(reps1, c, missed)
          /\ response' = Response("http", 200, <<>>, <<>>)
    /\ UNCHANGED <<MAX_CONNECTIONS_PER_STUDENT, now, published>>

\* ------------------------------------------------------------ POST /publish
\* the test of the handler on the destructured body
\* (variant: only studentId is tested)
PublishValidStudentOnly(body) == body.studentId # NoValue

PublishValid(body) == body.studentId # NoValue /\ body.message # NoValue

PublishRejected(body) ==
    /\ ~PublishValid(body)
    /\ response' = Rejected("studentId and message required")
    /\ UNCHANGED <<MAX_CONNECTIONS_PER_STUDENT, now, connections,
                   recentNotifications, metrics, replies, published>>

\* the body of both publish handlers for one accepted entry: build the
\* notification, store it, broadcast it as a live frame
PublishOne(st, studentId, message, t) ==
    LET n == [id |-> Len(st.published) + 1, studentId |-> studentId,
              message |-> message, createdAt |-> t]
        add == addRecentNotification(st.recentNotifications, st.metrics, n, t)
        bc == broadcastToStudent(st.connections, st.replies, add.metrics, studentId,
                                 Frame("live", n))
    IN [connections |-> st.connections,
        recentNotifications |-> add.recentNotifications,
        metrics |-> bc.metrics,
        replies |-> bc.replies,
        published |-> Append(st.published, n),
        ids |-> Append(st.ids, [id |-> n.id, studentId |-> studentId]),
        sent |-> Append(st.sent, bc.sent)]

Current ==
    [connections |-> connections, recentNotifications |-> recentNotifications,
     metrics |-> metrics, replies |-> replies, published |-> published,
     ids |-> <<>>, sent |-> <<>>]

Publish(body) ==
    /\ PublishValid(body)
    /\ Work < MaxWork
    /\ \E st \in {PublishOne(Current, body.studentId, body.message, now)} :
          /\ recentNotifications' = st.recentNotifications
          /\ metrics' = st.metrics
          /\ replies' = st.replies
          /\ published' = st.published
          /\ response' = Response("http", 202, st.ids, st.sent)
    /\ UNCHANGED <<MAX_CONNECTIONS_PER_STUDENT, now, connections>>

\* ------------------------------------------------------ POST /publish/batch
ValidEntry(p) == p.studentId # NoValue /\ p.message # NoValue

\* the for-loop of the batch handler: invalid entries are skipped
\* (variant: break instead of continue)
RECURSIVE BatchLoopBreaks(_, _, _)
BatchLoopBreaks(st, items, t) ==
    IF items = <<>> \/ ~ValidEntry(Head(items)) THEN st
    ELSE BatchLoopBreaks(PublishOne(st, Head(items).studentId, Head(items).message, t),
                         Tail(items), t)

RECURSIVE BatchLoop(_, _, _)
BatchLoop(st, items, t) ==
    IF items = <<>> THEN st
    ELSE LET p == Head(items)
         IN BatchLoop(IF ValidEntry(p)
                      THEN PublishOne(st, p.studentId, p.message, t)
                      ELSE st,
                      Tail(items), t)

\* request entries: the valid ones, one without studentId, one without message
PublishBodies ==
    [studentId : StudentIds, message : Messages]
    \cup {[studentId |-> NoValue, message |-> CHOOSE m \in Messages : TRUE],
          [studentId |-> CHOOSE s \in StudentIds : TRUE, message |-> NoValue]}

RECURSIVE SeqsUpTo(_, _)
SeqsUpTo(S, k) ==
    IF k = 0 THEN {<<>>}
    ELSE LET shorter == SeqsUpTo(S, k - 1)
         IN shorter \cup {Append(q, x) : q \in shorter, x \in S}

BatchBodies == SeqsUpTo(PublishBodies, MaxBatch)

\* the bodies of a /publish request: an entry, or no body at all ({})
PublishRequests == PublishBodies \cup {[studentId |-> NoValue, message |-> NoValue]}

\* the bodies of a /publish/batch request: a notifications array, or a body
\* that is missing or whose notifications is not an array
BatchRequests ==
    {[isArray |-> TRUE, notifications |-> items] : items \in BatchBodies}
    \cup {[isArray |-> FALSE, notifications |-> <<>>]}

\* the test of the batch handler on the body
\* (variant: a batch without valid entry is refused too)
BatchMalformedOrAllInvalid(body) ==
    ~body.isArray \/ SelectSeq(body.notifications, ValidEntry) = <<>>

BatchMalformed(body) == ~body.isArray \/ Len(body.notifications) = 0

\* body missing, notifications not an array, or the array empty: 400
PublishBatchRejected(body) ==
    /\ BatchMalformed(body)
    /\ response' = Rejected("notifications array required")
    /\ UNCHANGED <<MAX_CONNECTIONS_PER_STUDENT, now, connections,
                   recentNotifications, metrics, replies, published>>

PublishBatch(body) ==
    /\ ~BatchMalformed(body)
    /\ Work + Len(SelectSeq(body.notifications, ValidEntry)) <= MaxWork
    /\ \E st \in {BatchLoop(Current, body.notifications, now)} :
          /\ recentNotifications' = st.recentNotifications
          /\ metrics' = st.metrics
          /\ replies' = st.replies
          /\ published' = st.published
          /\ response' = Response("http", 202, st.ids, st.sent)
    /\ UNCHANGED <<MAX_CONNECTIONS_PER_STUDENT, now, connections>>

\* ------------------------------------------------------- transport events
\* 'close' on reply.raw: onClose runs, and keepAlive's interval is cleared.
\* It is the last event a stream emits, and nothing is written to it after.
TransportClose(c) ==
    /\ ~replies[c].closed
    /\ \E un \in {unregisterConnection(connections, metrics, replies[c].studentId, c)} :
          /\ connections' = un.connections
          /\ metrics' = un.metrics
    /\ replies' = [replies EXCEPT ![c].closed = TRUE, ![c].writable = FALSE]
    /\ response' = OnCloseResult(c, Registered(c))
    /\ UNCHANGED <<MAX_CONNECTIONS_PER_STUDENT, now, recentNotifications, published>>

\* 'end' on reply.raw, before 'close': onClose runs
TransportEnd(c) ==
    /\ ~replies[c].closed
    /\ \E un \in {unregisterConnection(connections, metrics, replies[c].studentId, c)} :
          /\ connections' = un.connections
          /\ metrics' = un.metrics
    /\ response' = NoResponse
    /\ UNCHANGED <<MAX_CONNECTIONS_PER_STUDENT, now, recentNotifications, replies, published>>

\* the transport of a registered reply breaks: from now on reply.raw.write
\* throws (a fault of a reply no handler writes to any more changes nothing)
ChannelFault(c) ==
    /\ Registered(c)
    /\ replies[c].writable
    /\ replies' = [replies EXCEPT ![c].writable = FALSE]
    /\ response' = NoResponse
    /\ UNCHANGED <<MAX_CONNECTIONS_PER_STUDENT, now, connections, recentNotifications,
                   metrics, published>>

\* keepAlive's interval callback, until 'close' clears it: a ": ping" comment
\* is written inside try/catch; comments are not kept in frames
KeepAlive(c) ==
    /\ ~replies[c].closed
    /\ response' = NoResponse
    /\ UNCHANGED <<MAX_CONNECTIONS_PER_STUDENT, now, connections, recentNotifications,
                   metrics, replies, published>>

\* ------------------------------------------------------- background tasks
\* the setInterval callback of createServer
Cleanup ==
    /\ \E pr \in {pruneOldNotifications(recentNotifications, metrics, now)} :
          /\ recentNotifications' = pr.recentNotifications
          /\ metrics' = pr.metrics
    /\ response' = NoResponse
    /\ UNCHANGED <<MAX_CONNECTIONS_PER_STUDENT, now, connections, replies, published>>

\* the clock advances
Tick ==
    /\ Work < MaxWork
    /\ now' = now + 1
    /\ response' = NoResponse
    /\ UNCHANGED <<MAX_CONNECTIONS_PER_STUDENT, connections, recentNotifications,
                   metrics, replies, published>>

Next ==
    \/ \E q \in SubscribeQueries : SubscribeRejected(q)
    \/ \E q \in SubscribeQueries : Subscribe(q)
    \/ \E body \in PublishRequests : PublishRejected(body)
    \/ \E body \in PublishRequests : Publish(body)
    \/ \E body \in BatchRequests : PublishBatchRejected(body)
    \/ \E body \in BatchRequests : PublishBatch(body)
    \/ \E c \in DOMAIN replies : TransportClose(c)
    \/ \E c \in DOMAIN replies : TransportEnd(c)
    \/ \E c \in DOMAIN replies : ChannelFault(c)
    \/ \E c \in DOMAIN replies : KeepAlive(c)
    \/ Cleanup
    \/ Tick

Spec == Init /\ [][Next]_vars

\* Scheduling.  The setInterval callback of createServer keeps firing while the
\* process runs.  Node emits 'close' on a response whose transport has failed
\* or that has been ended; a healthy stream may stay open for ever.
CloseEmitted(c) ==
    /\ c \in DOMAIN replies
    /\ ~replies[c].writable
    /\ TransportClose(c)

\* The runs checked for liveness start one clock unit later, MaxWork bounding
\* them as it bounds the others.
FairInit == Start(1)

FairSpec ==
    /\ FairInit /\ [][Next]_vars
    /\ WF_vars(Cleanup)
    /\ \A c \in 1..MaxWork : WF_vars(CloseEmitted(c))

\* ================================================================ claims
IsData(f) == f.type \in {"missed", "live"}

DataFrames(c) == SelectSeq(replies[c].frames, IsData)

ConnectedAt(c) == replies[c].frames[1].createdAt

Received(c, n) == \E k \in DOMAIN replies[c].frames :
                      /\ IsData(replies[c].frames[k])
                      /\ replies[c].frames[k].id = n.id

RepliesOf(s) == {c \in DOMAIN replies : replies[c].studentId = s}

RegisteredSet(s) == Range(MapGet(connections, s, <<>>))

\* C1  At-least-once delivery: a reply c that is still registered and writable
\* has received, as a missed or as a live frame, every notification of its
\* student that was published after c subscribed or was still inside the
\* retention window when c subscribed.
AtLeastOnce ==
    \A c \in DOMAIN replies :
        (Registered(c) /\ replies[c].writable) =>
            \A i \in DOMAIN published :
                (/\ published[i].studentId = replies[c].studentId
                 /\ ConnectedAt(c) - published[i].createdAt <= NOTIFICATION_TTL_MS)
                => Received(c, published[i])

\* both interleavings in one run: one notification replayed as missed, a later
\* one pushed live
AtLeastOnceWitness ==
    \E c \in DOMAIN replies :
        /\ Registered(c) /\ replies[c].writable
        /\ Len(DataFrames(c)) = 2
        /\ DataFrames(c)[1].type = "missed"
        /\ DataFrames(c)[2].type = "live"

\* C2  Bounded fan-out: no student's set ever holds more than
\* MAX_CONNECTIONS_PER_STUDENT replies (and holds none twice).
BoundedFanOut ==
    \A s \in DOMAIN connections :
        /\ Cardinality(Range(connections[s])) <= MAX_CONNECTIONS_PER_STUDENT
        /\ Len(connections[s]) = Cardinality(Range(connections[s]))

\* a full set after an eviction, a disconnect and a publish
BoundedFanOutWitness ==
    \E s \in DOMAIN connections :
        /\ Len(connections[s]) = MAX_CONNECTIONS_PER_STUDENT
        /\ \E c \in RepliesOf(s) : replies[c].ended
        /\ \E c \in DOMAIN replies : replies[c].closed
        /\ published # <<>>

\* C3  Oldest-first eviction.  A subscribe for a student whose set is full
\* removes exactly one member, the one with the smallest reply index (the one
\* registered first), ends it, and adds the new reply; and while no reply of a
\* student has disconnected, the set holds the most recently created ones.
MinOf(S) == CHOOSE c \in S : \A d \in S : c <= d

EvictionStep ==
    \A s \in StudentIds :
        LET before == RegisteredSet(s)
            new == Len(replies')
        IN (/\ Len(replies') = Len(replies) + 1
            /\ replies'[new].studentId = s
            /\ Cardinality(before) = MAX_CONNECTIONS_PER_STUDENT)
           => /\ Range(MapGet(connections', s, <<>>)) = (before \ {MinOf(before)}) \cup {new}
              /\ replies'[MinOf(before)].ended
              /\ \A d \in before \ {MinOf(before)} : ~replies'[d].ended

NoDisconnect(s) ==
    \A c \in RepliesOf(s) : ~replies[c].closed /\ (Registered(c) \/ replies[c].ended)

MostRecentHeld ==
    \A s \in StudentIds :
        NoDisconnect(s) =>
            RegisteredSet(s) =
                {c \in RepliesOf(s) :
                    Cardinality({d \in RepliesOf(s) : d > c}) < MAX_CONNECTIONS_PER_STUDENT}

OldestFirstEviction == [][EvictionStep /\ MostRecentHeld']_vars

\* more subscribes than the limit allows, with a limit of at least two
OldestFirstEvictionWitness ==
    \E s \in StudentIds :
        /\ MAX_CONNECTIONS_PER_STUDENT >= 2
        /\ NoDisconnect(s)
        /\ Cardinality(RepliesOf(s)) > MAX_CONNECTIONS_PER_STUDENT
        /\ \E c \in RepliesOf(s) : replies[c].ended

\* ---- steps, as seen from the state before and the state after
SubscribeStep == Len(replies') = Len(replies) + 1

NewReply == Len(replies')

DataFramesAfter(c) == SelectSeq(replies'[c].frames, IsData)

NewNotifications == {i \in DOMAIN published' : i > Len(published)}

MissedFrameOf(n) ==
    [type |-> "missed", id |-> n.id, message |-> n.message, createdAt |-> n.createdAt]

LiveFrameOf(n) ==
    [type |-> "live", id |-> n.id, message |-> n.message, createdAt |-> n.createdAt]

InsideWindow(n) == now - n.createdAt <= NOTIFICATION_TTL_MS

\* the replies other than the new one keep their frames in a subscribe
OnlyNewReplyWritten ==
    \A d \in DOMAIN replies : replies'[d].frames = replies[d].frames

LiveCopies(frames, n) == {k \in DOMAIN frames : frames[k].type = "live" /\ frames[k].id = n.id}

LiveDelivery ==
    [][\A i \in NewNotifications :
        LET n == published'[i]
        IN /\ \E j \in DOMAIN response'.ids :
                response'.ids[j] = [id |-> n.id, studentId |-> n.studentId]
           /\ \A c \in RegisteredSet(n.studentId) :
                replies[c].writable =>
                    /\ Cardinality(LiveCopies(replies'[c].frames, n)) = 1
                    /\ LiveCopies(replies[c].frames, n) = {}
                    /\ \A k \in LiveCopies(replies'[c].frames, n) :
                          replies'[c].frames[k] = LiveFrameOf(n)]_vars

\* two replies of one student have both received the notification just published
LiveDeliveryWitness ==
    /\ response.code = 202 /\ Len(response.ids) = 1
    /\ \E c1, c2 \in DOMAIN replies :
        /\ c1 # c2 /\ Registered(c1) /\ Registered(c2)
        /\ replies[c1].studentId = replies[c2].studentId
        /\ \A c \in {c1, c2} : \E k \in DOMAIN replies[c].frames :
              /\ replies[c].frames[k].type = "live"
              /\ replies[c].frames[k].id = response.ids[1].id

\* C6  Cross-recipient isolation: every data frame a reply holds carries a
\* notification that was published for the reply's own student.
Isolation ==
    \A c \in DOMAIN replies : \A k \in DOMAIN replies[c].frames :
        LET f == replies[c].frames[k]
        IN IsData(f) =>
            /\ f.id \in DOMAIN published
            /\ published[f.id].studentId = replies[c].studentId
            /\ published[f.id].message = f.message

\* a batch for two students, each with a registered reply that got its own frame
IsolationWitness ==
    /\ response.code = 202 /\ Len(response.ids) = 2
    /\ response.ids[1].studentId # response.ids[2].studentId
    /\ \A j \in {1, 2} : \E c \in DOMAIN replies :
        /\ Registered(c)
        /\ replies[c].studentId = response.ids[j].studentId
        /\ \E k \in DOMAIN replies[c].frames :
              replies[c].frames[k].type = "live" /\ replies[c].frames[k].id = response.ids[j].id

\* C7  Idempotent disconnect.  A 'close' for a reply that is registered removes
\* it and lowers connectionsActive by one; a 'close' for a reply that is no
\* longer registered changes neither the registry nor the metrics; a step that
\* creates no reply removes at most one reply and lowers connectionsActive by
\* the number it removed; connectionsActive is never negative.
AllRegistered == UNION {Range(connections[s]) : s \in DOMAIN connections}

IdempotentDisconnect ==
    [][/\ metrics'.connectionsActive >= 0
       /\ ~SubscribeStep =>
            /\ AllRegistered' \subseteq AllRegistered
            /\ Cardinality(AllRegistered \ AllRegistered') <= 1
            /\ metrics'.connectionsActive =
                  metrics.connectionsActive - Cardinality(AllRegistered \ AllRegistered')
       /\ \A c \in DOMAIN replies :
            (~replies[c].closed /\ replies'[c].closed) =>
                IF Registered(c)
                THEN AllRegistered' = AllRegistered \ {c}
                ELSE connections' = connections /\ metrics' = metrics]_vars

\* the only reply was unregistered by 'end'; its 'close' then found it gone
IdempotentDisconnectWitness ==
    /\ response.kind = "onClose" /\ ~response.removed
    /\ ~replies[response.reply].ended
    /\ metrics.connectionsTotal = 1
    /\ metrics.connectionsActive = 0

\* C8  Broadcast isolation: when the write to one registered reply throws, the
\* publish still writes the frame to every other registered reply of the
\* student that is writable, and the publisher gets 202.
BroadcastIsolation ==
    [][\A i \in NewNotifications :
        LET n == published'[i]
            set == RegisteredSet(n.studentId)
        IN (\E c2 \in set : ~replies[c2].writable) =>
            /\ response'.code = 202
            /\ \A c1 \in set : replies[c1].writable =>
                  \E k \in DOMAIN replies'[c1].frames :
                      /\ k > Len(replies[c1].frames)
                      /\ replies'[c1].frames[k] = LiveFrameOf(n)]_vars

\* the reply written first throws, the one after it received the frame
BroadcastIsolationWitness ==
    /\ response.code = 202 /\ response.sent = <<1>>
    /\ \E c1, c2 \in DOMAIN replies :
        /\ c2 < c1 /\ Registered(c1) /\ Registered(c2)
        /\ replies[c1].studentId = response.ids[1].studentId
        /\ replies[c2].studentId = response.ids[1].studentId
        /\ ~replies[c2].writable
        /\ replies[c1].writable
        /\ replies[c1].frames[Len(replies[c1].frames)].id = response.ids[1].id

\* C9  Sent-count accounting: each broadcastToStudent call returns the number
\* of replies it wrote to, notificationsSent grows by the frames written, a
\* broadcast for a student without registered reply returns 0, and a step that
\* publishes nothing (a keep-alive ping among them) leaves notificationsSent.
FramesWritten ==
    SumFn([c \in DOMAIN replies |-> Len(replies'[c].frames) - Len(replies[c].frames)])

SentAccounting ==
    [][/\ NewNotifications = {} => metrics'.notificationsSent = metrics.notificationsSent
       /\ NewNotifications # {} =>
            /\ Len(response'.sent) = Cardinality(NewNotifications)
            /\ metrics'.notificationsSent = metrics.notificationsSent + FramesWritten
            /\ metrics'.notificationsSent = metrics.notificationsSent + SumSeq(response'.sent)
            /\ \A i \in NewNotifications :
                LET n == published'[i]
                    got == {c \in DOMAIN replies : LiveCopies(replies'[c].frames, n) # {}}
                IN /\ response'.sent[i - Len(published)] = Cardinality(got)
                   /\ RegisteredSet(n.studentId) = {} => response'.sent[i - Len(published)] = 0]_vars

\* after a counted delivery the student's reply closed, and the next publish
\* for the student returned 0
SentAccountingWitness ==
    /\ response.code = 202 /\ response.sent = <<0>>
    /\ metrics.notificationsSent = 1
    /\ RegisteredSet(response.ids[1].studentId) = {}
    /\ \E c \in RepliesOf(response.ids[1].studentId) : replies[c].closed

\* C10  Retention: a notification whose age is at most the retention window is
\* in its student's history, whatever prune passes ran since it was appended.
RetentionSafety ==
    \A i \in DOMAIN published :
        InsideWindow(published[i]) =>
            published[i] \in Range(MapGet(recentNotifications, published[i].studentId, <<>>))

\* a prune pass has evicted an older entry and kept one whose age is exactly
\* the retention window
RetentionSafetyWitness ==
    /\ metrics.notificationsEvicted > 0
    /\ \E i \in DOMAIN published :
        /\ now - published[i].createdAt = NOTIFICATION_TTL_MS
        /\ published[i] \in Range(MapGet(recentNotifications, published[i].studentId, <<>>))

\* ---- request validation
CoreUnchanged ==
    UNCHANGED <<MAX_CONNECTIONS_PER_STUDENT, now, connections, recentNotifications,
                metrics, replies, published>>

Missing(v) == v = NoValue

\* C11  Publish validation: a /publish request whose studentId or message is
\* missing or empty is answered 400 and leaves the registry, the store, the
\* metrics, every reply's frames and the notifications created as they were;
\* and nothing but such a request gets the publish handler's 400.
PublishValidation ==
    [][/\ \A body \in PublishRequests :
            (/\ Missing(body.studentId) \/ Missing(body.message)
             /\ response'.kind = "http"
             /\ PublishRejected(body) \/ Publish(body))
            => (response'.code = 400 /\ CoreUnchanged)
       /\ response'.error = "studentId and message required"
            => (response'.code = 400 /\ CoreUnchanged)]_vars

\* a rejected publish in a state where an accepted one would have stored a
\* notification and written a frame to a registered reply
PublishValidationWitness ==
    /\ response.error = "studentId and message required"
    /\ published # <<>>
    /\ metrics.notificationsSent > 0
    /\ \A s \in StudentIds : \E c \in RegisteredSet(s) : replies[c].writable

\* C12  Batch publish equals sequential publish: a batch request leaves the
\* store, the replies, the metrics and the notifications created as publishing
\* its valid entries one after the other, in list order, would; invalid entries
\* are skipped wherever they stand; the response lists the (id, studentId) of
\* the accepted entries, one per entry and in order.
Accepted(items) ==
    SelectSeq(items, LAMBDA p : ~Missing(p.studentId) /\ ~Missing(p.message))

RECURSIVE SequentialPublish(_, _, _)
SequentialPublish(st, entries, t) ==
    IF entries = <<>> THEN st
    ELSE SequentialPublish(PublishOne(st, Head(entries).studentId, Head(entries).message, t),
                           Tail(entries), t)

\* The loop of the handler, run on every request in the current state.  The
\* loop does not read response, and a rejected /sse request is possible in
\* every state and changes nothing else: the states it leaves hold every
\* reachable registry, store, metrics, replies and clock.
BatchLoopIsSequential ==
    response.error = "studentId is required" =>
        \A body \in BatchRequests :
            body.isArray =>
                BatchLoop(Current, body.notifications, now)
                    = SequentialPublish(Current, Accepted(body.notifications), now)

\* the state a step leaves, as a loop result
After ==
    [connections |-> connections', recentNotifications |-> recentNotifications',
     metrics |-> metrics', replies |-> replies', published |-> published',
     ids |-> response'.ids, sent |-> response'.sent]

\* the entries of the notifications a step created, in order
NewEntries ==
    [j \in 1..(Len(published') - Len(published)) |->
        [studentId |-> published'[Len(published) + j].studentId,
         message |-> published'[Len(published) + j].message]]

\* a step that answers 202 leaves what publishing the entries it accepted, one
\* after the other, leaves; its ids are theirs, one per entry and in order
BatchStepIsSequential ==
    response'.code = 202 =>
        /\ After = SequentialPublish(Current, NewEntries, now)
        /\ Len(response'.ids) = Len(NewEntries)
        /\ \A j \in DOMAIN NewEntries :
              response'.ids[j] = [id |-> published'[Len(published) + j].id,
                                  studentId |-> NewEntries[j].studentId]

AsStated(body) == ~body.isArray \/ body.notifications = <<>>

\* The handler's test is the stated one, and its loop leaves the state as it
\* is when no entry is valid (in the states a rejected /sse request leaves,
\* which hold every reachable registry, store, metrics, replies and clock).
BatchGuard ==
    response.error = "studentId is required" =>
        \A body \in BatchRequests :
            /\ BatchMalformed(body) <=> AsStated(body)
            /\ (~AsStated(body) /\ Accepted(body.notifications) = <<>>)
                => BatchLoop(Current, body.notifications, now) = Current

\* A step that answers the batch handler's 400, or 202 without ids, changes
\* nothing; from the states a rejected /sse request leaves, the former is the
\* step of exactly the requests with a missing, non-array or empty
\* notifications, the latter the step of every non-empty array without valid
\* entry.
BatchFailureStep ==
    /\ response'.error = "notifications array required" =>
            /\ response'.code = 400 /\ CoreUnchanged
            /\ response.error = "studentId is required" =>
                  \A body \in BatchRequests : PublishBatchRejected(body) <=> AsStated(body)
    /\ (response'.code = 202 /\ response'.ids = <<>>) =>
            /\ CoreUnchanged
            /\ response.error = "studentId is required" =>
                  \A body \in BatchRequests :
                      (~AsStated(body) /\ Accepted(body.notifications) = <<>>)
                      => PublishBatch(body)

SubscribeValidation ==
    [][/\ \A q \in SubscribeQueries :
            (/\ Missing(q)
             /\ response'.kind = "http"
             /\ SubscribeRejected(q) \/ Subscribe(q))
            => (response'.code = 400 /\ CoreUnchanged)
       /\ response'.error = "studentId is required"
            => (response'.code = 400 /\ CoreUnchanged)]_vars

\* a rejected subscribe while a student's set is full and a reply has already
\* been evicted
SubscribeValidationWitness ==
    /\ response.error = "studentId is required"
    /\ \E s \in DOMAIN connections :
          /\ Len(connections[s]) = MAX_CONNECTIONS_PER_STUDENT
          /\ \E c \in RepliesOf(s) : replies[c].ended
    /\ metrics.connectionsActive > 0

\* C15  Per-reply frame order: the connected mark is the first thing a reply
\* holds and the only one; the missed frames follow it; every live frame comes
\* after every missed frame.
FrameOrder ==
    \A c \in DOMAIN replies :
        LET f == replies[c].frames
        IN /\ f # <<>> /\ f[1].type = "connected"
           /\ \A k \in DOMAIN f : k > 1 => IsData(f[k])
           /\ \A j, k \in DOMAIN f :
                 (j < k /\ f[j].type = "live") => f[k].type = "live"

\* a reply that was sent two missed frames on subscribing and a live frame later
FrameOrderWitness ==
    \E c \in DOMAIN replies :
        /\ Len(replies[c].frames) = 4
        /\ replies[c].frames[2].type = "missed"
        /\ replies[c].frames[3].type = "missed"
        /\ replies[c].frames[4].type = "live"

\* ---- the entries the store holds
StoredEntries == UNION {Range(recentNotifications[s]) : s \in DOMAIN recentNotifications}

StoredEntriesAfter ==
    UNION {Range(recentNotifications'[s]) : s \in DOMAIN recentNotifications'}

\* C16 as stated: a step that answers a publish or a subscribe request removes
\* no entry from the store and leaves notificationsEvicted.
PurelyTimeDriven ==
    [][response'.kind = "http" =>
        /\ StoredEntries \subseteq StoredEntriesAfter
        /\ metrics'.notificationsEvicted = metrics.notificationsEvicted]_vars

\* C16 amended: the store and notificationsEvicted change only in the cleanup
\* callback, in an accepted subscribe and in a publish that accepted an entry;
\* every such step removes only entries older than the retention window and
\* counts each of them once; a rejected request, a batch without valid entry
\* and a transport event never prune.
PrunedByTimerPublishSubscribe ==
    [][(\/ recentNotifications' # recentNotifications
        \/ metrics'.notificationsEvicted # metrics.notificationsEvicted) =>
        LET removed == StoredEntries \ StoredEntriesAfter
        IN  /\ \A n \in removed : ~InsideWindow(n)
            /\ metrics'.notificationsEvicted
                  = metrics.notificationsEvicted + Cardinality(removed)
            /\ \/ response'.kind = "none" /\ Cleanup
               \/ response'.code = 200
               \/ response'.code = 202 /\ response'.ids # <<>>]_vars

\* a publish has just stored its notification; the one published before it
\* had expired and is no longer held
PrunedByPublishWitness ==
    /\ response.code = 202 /\ Len(response.ids) = 1
    /\ metrics.notificationsEvicted = 1
    /\ Len(published) = 2
    /\ published[2].createdAt = now
    /\ published[1] \notin StoredEntries
    /\ published[2] \in StoredEntries

\* C17  Prune postcondition: the cleanup callback leaves, for every student,
\* the entries of its list whose age is at most the retention window, in their
\* order, and no key for a student without such an entry; notificationsEvicted
\* grows by the number of entries dropped and no other metric changes; after
\* the pass every stored entry is inside the window.
KeptOf(s) == SelectSeq(MapGet(recentNotifications, s, <<>>), InsideWindow)

PrunePostcondition ==
    [][(response'.kind = "none" /\ now' = now /\ Cleanup) =>
        /\ DOMAIN recentNotifications' = {s \in DOMAIN recentNotifications : KeptOf(s) # <<>>}
        /\ \A s \in DOMAIN recentNotifications' : recentNotifications'[s] = KeptOf(s)
        /\ metrics' = [metrics EXCEPT !.notificationsEvicted =
                          @ + Cardinality(StoredEntries) - Cardinality(StoredEntriesAfter)]
        /\ \A n \in StoredEntriesAfter : now' - n.createdAt <= NOTIFICATION_TTL_MS]_vars

\* the cleanup callback dropped one student's only entry and its key, and kept
\* the other student's younger entry (no request pruned it: there was no
\* subscribe, and the older entry was inside the window at the last publish)
PrunePostconditionWitness ==
    /\ response.kind = "none"
    /\ replies = <<>>
    /\ now = 2 /\ Len(published) = 2
    /\ published[1].createdAt = 0 /\ published[2].createdAt = 1
    /\ published[1].studentId # published[2].studentId
    /\ DOMAIN recentNotifications = {published[2].studentId}
    /\ metrics.notificationsEvicted = 1

\* C20  Closed is terminal: a reply that is not in its student's set (every
\* reply is put there by the request that created it) is in no set after any
\* step, and no step adds a frame to it.
ClosedIsTerminal ==
    [][\A c \in DOMAIN replies :
        ~Registered(c) =>
            /\ c \notin AllRegistered'
            /\ replies'[c].frames = replies[c].frames]_vars

\* two replies of one student, one unregistered by 'end' and still open, one
\* registered: only the registered one holds the notification published last
UnregisteredGetsNothingWitness ==
    /\ response.code = 202 /\ Len(response.ids) = 1
    /\ \E c1, c2 \in RepliesOf(response.ids[1].studentId) :
        /\ ~Registered(c1) /\ ~replies[c1].closed /\ ~replies[c1].ended
        /\ Registered(c2)
        /\ \A k \in DOMAIN replies[c1].frames : replies[c1].frames[k].id # response.ids[1].id
        /\ \E k \in DOMAIN replies[c2].frames : replies[c2].frames[k].id = response.ids[1].id

\* C18  Eventual eviction: with the cleanup callback firing again and again, a
\* stored notification whose age exceeds the retention window is eventually
\* out of the store, whether or not any request arrives; again and again a
\* student's list holds nothing older than the window, so that it is empty
\* once all its entries have expired and none has been added.
Held(i) == i \in DOMAIN published /\ published[i] \in StoredEntries

Expired(i) == i \in DOMAIN published /\ ~InsideWindow(published[i])

NothingExpiredHeld(s) ==
    \A n \in Range(MapGet(recentNotifications, s, <<>>)) : InsideWindow(n)

EventualEviction ==
    /\ \A i \in 1..MaxWork : (Held(i) /\ Expired(i)) ~> ~Held(i)
    /\ \A s \in StudentIds : []<>NothingExpiredHeld(s)

\* no request came after the publish; the clock went past the notification's
\* window and the cleanup callback dropped it
EventualEvictionWitness ==
    /\ response.kind = "none"
    /\ replies = <<>> /\ Len(published) = 1
    /\ Expired(1) /\ ~Held(1)
    /\ metrics.notificationsEvicted = 1

\* C19  Close leads to unregistration: a reply that 'close' was emitted for is
\* in no set, an 'end' event leaves its reply in no set, and a registered reply
\* whose transport has failed is eventually out of its student's set.
Broken(c) == c \in DOMAIN replies /\ Registered(c) /\ ~replies[c].writable

Unregistered(c) == c \in DOMAIN replies /\ ~Registered(c)

CloseUnregisters ==
    /\ [](\A c \in DOMAIN replies : replies[c].closed => ~Registered(c))
    /\ [][\A c \in DOMAIN replies : TransportEnd(c) => c \notin AllRegistered']_vars
    /\ \A c \in 1..MaxWork : Broken(c) ~> Unregistered(c)

\* the transport of the second of two registered replies failed, 'close' was
\* emitted for it and found it registered; the first is still registered
CloseUnregistersWitness ==
    /\ response.kind = "onClose" /\ response.removed
    /\ response.reply = 2
    /\ replies[1].studentId = replies[2].studentId
    /\ Registered(1) /\ replies[1].writable
    /\ replies[2].closed

\* C21  Broadcast does not touch the registry: a step that publishes, single
\* or batch, leaves every student's set of replies, connectionsTotal and
\* connectionsActive as they were, also when a write to a reply throws; a reply
\* leaves the registry only in the 'close' or 'end' callback of that reply, or
\* by eviction in the registration of a new reply of its student.
AllRegisteredAfter == UNION {Range(connections'[s]) : s \in DOMAIN connections'}

EvictedBySubscribe(c) ==
    /\ SubscribeStep
    /\ replies'[NewReply].studentId = replies[c].studentId
    /\ ~replies[c].ended /\ replies'[c].ended

BroadcastLeavesRegistry ==
    [][/\ NewNotifications # {} =>
            /\ connections' = connections
            /\ metrics'.connectionsTotal = metrics.connectionsTotal
            /\ metrics'.connectionsActive = metrics.connectionsActive
       /\ \A c \in AllRegistered \ AllRegisteredAfter :
            TransportClose(c) \/ TransportEnd(c) \/ EvictedBySubscribe(c)]_vars

\* a publish found two registered replies of its student, the write to one of
\* them threw, and both are still registered
BroadcastLeavesRegistryWitness ==
    /\ response.code = 202 /\ response.sent = <<1>>
    /\ \E c1, c2 \in RegisteredSet(response.ids[1].studentId) :
        /\ ~replies[c1].writable /\ replies[c2].writable
        /\ ~Received(c1, published[response.ids[1].id])
        /\ Received(c2, published[response.ids[1].id])
    /\ metrics.connectionsActive = 2

\* C22  Active count matches the registry: connectionsActive is the number of
\* replies held in the sets of the registry; the 'close' of a reply that a
\* registration evicted changes neither the count nor any set, so that the
\* eviction is counted once.
ActiveMatchesRegistry == metrics.connectionsActive = Cardinality(AllRegistered)

EvictedCloseStep ==
    \A c \in DOMAIN replies :
        (replies[c].ended /\ ~replies[c].closed /\ replies'[c].closed) =>
            /\ connections' = connections
            /\ metrics' = metrics

ActiveCount == []ActiveMatchesRegistry /\ [][EvictedCloseStep]_vars

\* the first of three replies of a student was evicted at the limit of two
\* and then closed: the count is still the two replies that are registered
ActiveCountWitness ==
    /\ response.kind = "onClose" /\ ~response.removed
    /\ replies[response.reply].ended /\ replies[response.reply].closed
    /\ Cardinality(RegisteredSet(replies[response.reply].studentId)) = 2
    /\ metrics.connectionsActive = 2 /\ metrics.connectionsTotal = 3

\* C23  No empty sets in the registry: no key of connections maps to an empty
\* set, so that studentsWithConnections of /metrics is the number of students
\* with at least one registered reply.
studentsWithConnections == Cardinality(DOMAIN connections)

NoEmptySets ==
    /\ \A s \in DOMAIN connections : connections[s] # <<>>
    /\ studentsWithConnections = Cardinality({s \in StudentIds : RegisteredSet(s) # {}})

\* the only reply of one student was closed and its key is gone, while the
\* other student still has a reply
NoEmptySetsWitness ==
    /\ response.kind = "onClose" /\ response.removed
    /\ replies[response.reply].studentId \notin DOMAIN connections
    /\ studentsWithConnections = 1

\* C24  Store accounting: notificationsStored - notificationsEvicted is the
\* number of notifications held in the store, and every step adds to
\* notificationsStored the number of notifications it accepted, one each.
StoreBalance ==
    metrics.notificationsStored - metrics.notificationsEvicted = Cardinality(StoredEntries)

StoredStep ==
    metrics'.notificationsStored = metrics.notificationsStored + Cardinality(NewNotifications)

StoreAccounting == []StoreBalance /\ [][StoredStep]_vars

\* a second publish came after the first notification's window: two were
\* stored, one was evicted, one is held
StoreAccountingWitness ==
    /\ response.code = 202
    /\ metrics.notificationsStored = 2 /\ metrics.notificationsEvicted = 1
    /\ Cardinality(StoredEntries) = 1

\* C25  No duplicate delivery: the data frames of a reply carry pairwise
\* different notification ids; a notification reaches a reply as one missed
\* frame or as one live frame, never as both and never twice.
FrameIds(c) == [k \in DOMAIN DataFrames(c) |-> DataFrames(c)[k].id]

NoDuplicateDelivery ==
    \A c \in DOMAIN replies :
        \A j, k \in DOMAIN FrameIds(c) : j # k => FrameIds(c)[j] # FrameIds(c)[k]

\* one notification, live on the reply that was registered when it was
\* published and missed on a reply of the same student opened afterwards
NoDuplicateDeliveryWitness ==
    \E c1, c2 \in DOMAIN replies :
        /\ c1 < c2 /\ replies[c1].studentId = replies[c2].studentId
        /\ Len(DataFrames(c1)) = 1 /\ DataFrames(c1)[1].type = "live"
        /\ Len(DataFrames(c2)) = 1 /\ DataFrames(c2)[1].type = "missed"
        /\ FrameIds(c1) = FrameIds(c2)

\* C26  Replay never contains an expired notification: every missed frame of
\* a reply carries a notification that was at most NOTIFICATION_TTL_MS old at
\* the time of the subscribe (the time of the reply's connected mark), whether
\* or not the cleanup callback ran since the notification expired.
MissedInsideWindow ==
    \A c \in DOMAIN replies :
        \A k \in DOMAIN replies[c].frames :
            replies[c].frames[k].type = "missed" =>
                ConnectedAt(c) - replies[c].frames[k].createdAt <= NOTIFICATION_TTL_MS

\* a subscribe that came after the window of its student's only notification:
\* the reply holds the connected mark and nothing else, the notification is
\* counted as evicted
MissedInsideWindowWitness ==
    /\ response.code = 200
    /\ Len(replies) = 1 /\ Len(published) = 1
    /\ published[1].studentId = replies[1].studentId
    /\ ConnectedAt(1) - published[1].createdAt > NOTIFICATION_TTL_MS
    /\ Len(replies[1].frames) = 1
    /\ metrics.notificationsEvicted = 1

\* C27  Per-student order: the data frames of a reply, missed or live, are in
\* the order in which their notifications were published, and every list of
\* the store is in the order in which its entries were appended.
Increasing(ids) == \A j, k \in DOMAIN ids : j < k => ids[j] < ids[k]

StoreIds(s) == [k \in DOMAIN recentNotifications[s] |-> recentNotifications[s][k].id]

OrderPreserved ==
    /\ \A c \in DOMAIN replies : Increasing(FrameIds(c))
    /\ \A s \in DOMAIN recentNotifications : Increasing(StoreIds(s))

\* a reply that got an earlier notification as a missed frame and a later one
\* as a live frame, both still in the store in that order
OrderPreservedWitness ==
    \E c \in DOMAIN replies :
        /\ Len(DataFrames(c)) = 2
        /\ DataFrames(c)[1].type = "missed" /\ DataFrames(c)[2].type = "live"
        /\ StoreIds(replies[c].studentId) = FrameIds(c)

====
